---- MODULE Spec2Model ----
(***************************************************************************)
(* Model of drivers/leds/trigger/ledtrig-netdev.c: the netdev LED trigger. *)
(* Four contexts act on one led_netdev_data: a sysfs writer (the *_store   *)
(* handlers), the netdevice notifier chain (netdev_trig_notify, serialised *)
(* by the registry), the delayed work item (netdev_trig_work) and the LED  *)
(* core taking the trigger off the LED (netdev_trig_deactivate).           *)
(* Handlers are split at their synchronisation points                      *)
(* (cancel_delayed_work_sync, spin_lock_bh, spin_unlock_bh) and before     *)
(* set_baseline_state, so that the paths that do not take the lock         *)
(* interleave with the ones that do.                                       *)
(***************************************************************************)
EXTENDS Integers, Sequences, FiniteSets, TLC

\* ------------------------------------------------------------------------
\* Program constants
\* ------------------------------------------------------------------------
IFNAMSIZ == 16
NETDEV_LED_LINK == 0
NETDEV_LED_TX == 1
NETDEV_LED_RX == 2
NETDEV_LED_MODE_LINKUP == 3
LED_OFF == 0
LED_FULL == 255
EINVAL == 22
ERANGE == 34
INTERVAL_MIN == 5
INTERVAL_MAX == 10000
INTERVAL_DEFAULT == 50
MSEC_PER_SEC == 1000

\* ------------------------------------------------------------------------
\* Bounds of the model
\* ------------------------------------------------------------------------
\* packets the registry may count in total
MaxTraffic == 1
\* store calls, show calls and registry events started in one run
MaxOps == 2
\* link events of the bound interface in a run of link events alone
MaxLinkEvents == 3
\* store calls, show calls and registry events started in a run in which
\* the trigger is deactivated
MaxLifeOps == 1

NULL == "NULL"
Devs == {"d1", "d2"}

\* characters are their ASCII codes; 0 is NUL, 10 is the newline
NUL == 0
NL == 10
txt_a == <<97>>
txt_ab == <<97, 98>>
txt_link == <<108, 105, 110, 107>>
txt_tx == <<116, 120>>
txt_rx == <<114, 120>>
txt_0 == <<48>>
txt_1 == <<49>>

\* interface names the registry hands out
IfNames == {txt_a, txt_ab}

\* texts written to the device_name attribute (the last one has IFNAMSIZ bytes)
NameInputs ==
  { <<>>, <<NL>>, txt_a, txt_a \o <<NL>>, txt_ab \o <<NL>>,
    [i \in 1..IFNAMSIZ |-> 97] }

\* twenty nines: more than an unsigned long holds
txt_huge == [i \in 1..20 |-> 57]

\* texts written to the link, tx and rx attributes: "0", "1\n", "x" and
\* twenty nines
FlagInputs == { txt_0, txt_1 \o <<NL>>, <<120>>, txt_huge }

\* texts written to the mode attribute: "", "link tx", "rx", and "link",
\* a NUL byte, "rx"
ModeInputs ==
  { <<>>, txt_link \o <<32>> \o txt_tx, txt_rx, txt_link \o <<0>> \o txt_rx }

\* texts written to the interval attribute: "3", "5", "0xc8\n" (200),
\* "50000", "5x", twenty nines, twenty nines and "x"
IntervalInputs ==
  { <<51>>, <<53>>, <<48, 120, 99, 56, NL>>, <<53, 48, 48, 48, 48>>,
    <<53, 120>>, txt_huge, txt_huge \o <<120>> }

\* timer tick rates of the build
HZValues == {100, 1000}

\* ------------------------------------------------------------------------
\* C strings
\* ------------------------------------------------------------------------
\* strlen of a char array (the whole array when it holds no NUL)
strlen(arr) ==
  IF \E i \in 1..Len(arr) : arr[i] = NUL
  THEN (CHOOSE i \in 1..Len(arr) :
          arr[i] = NUL /\ \A j \in 1..(i - 1) : arr[j] # NUL) - 1
  ELSE Len(arr)

\* the text a char array holds, up to its first NUL
CStr(arr) == SubSeq(arr, 1, strlen(arr))

\* strncpy(dest, src, n): n bytes are written, NUL padding after the end of
\* src and NO terminator when src has n or more characters
strncpy(dest, src, n) ==
  [i \in 1..Len(dest) |->
     IF i <= n THEN (IF i <= strlen(src) THEN src[i] ELSE NUL) ELSE dest[i]]

\* strcmp(a, b) = 0
streq(a, b) == CStr(a) = CStr(b)

\* strstr(hay, needle) # NULL: the search ends at the first NUL of hay
strstr(hay, needle) ==
  LET h == CStr(hay)
  IN \E i \in 0..(Len(h) - Len(needle)) :
       SubSeq(h, i + 1, i + Len(needle)) = needle

\* an unsigned long, most significant limb first (64 bits: four limbs)
BITS_PER_LONG == 64
Limb == 2 ^ 16
ULongZero == [i \in 1..(BITS_PER_LONG \div 16) |-> 0]

\* the unsigned long of a number below 2^16
ULong(x) == [ULongZero EXCEPT ![Len(ULongZero)] = x]

\* the low 32 bits of an unsigned long whose value is below 2^31
ULongLow(v) == v[Len(v) - 1] * Limb + v[Len(v)]

\* a <= b
ULongLe(a, b) ==
  \/ a = b
  \/ \E i \in 1..Len(a) :
       a[i] < b[i] /\ \A j \in 1..(i - 1) : a[j] = b[j]

RECURSIVE ULongCarry(_, _, _, _)
\* the carry into limb i of v * base + d (limb Len(v) is the lowest)
ULongCarry(v, base, d, i) ==
  IF i = Len(v) THEN d
  ELSE (v[i + 1] * base + ULongCarry(v, base, d, i + 1)) \div Limb

\* v * base + d modulo 2^BITS_PER_LONG, and whether it wrapped
ULongMulAdd(v, base, d) ==
  [val |-> [i \in 1..Len(v) |-> (v[i] * base + ULongCarry(v, base, d, i)) % Limb],
   overflow |-> (v[1] * base + ULongCarry(v, base, d, 1)) \div Limb > 0]

\* kstrtoul(s, 0, &res): optional '+', radix from the prefix (0x: 16, 0: 8,
\* else 10), at least one digit, one optional trailing newline, nothing else;
\* -ERANGE when the digits do not fit an unsigned long, whatever follows them
DigitVal(c) ==
  IF c \in 48..57 THEN c - 48
  ELSE IF c \in 97..102 THEN c - 87
  ELSE IF c \in 65..70 THEN c - 55
  ELSE 99

RECURSIVE ParseDigits(_, _, _)
\* _parse_integer: value, number of characters consumed, overflow
ParseDigits(s, base, acc) ==
  IF s # <<>> /\ DigitVal(Head(s)) < base
  THEN LET m == ULongMulAdd(acc.val, base, DigitVal(Head(s)))
       IN ParseDigits(Tail(s), base,
                      [val |-> m.val, cnt |-> acc.cnt + 1,
                       overflow |-> acc.overflow \/ m.overflow])
  ELSE acc

kstrtoul(txt) ==
  LET s0 == CStr(txt)
      s1 == IF s0 # <<>> /\ Head(s0) = 43 THEN Tail(s0) ELSE s0
      isx == Len(s1) >= 3 /\ s1[1] = 48 /\ s1[2] \in {120, 88}
             /\ DigitVal(s1[3]) < 16
      base == IF isx THEN 16 ELSE IF s1 # <<>> /\ s1[1] = 48 THEN 8 ELSE 10
      s2 == IF isx THEN SubSeq(s1, 3, Len(s1)) ELSE s1
      p == ParseDigits(s2, base,
                       [val |-> ULongZero, cnt |-> 0, overflow |-> FALSE])
      rest == SubSeq(s2, p.cnt + 1, Len(s2))
      rest2 == IF rest # <<>> /\ Head(rest) = NL THEN Tail(rest) ELSE rest
  IN IF p.overflow THEN [ret |-> -ERANGE, val |-> ULongZero]
     ELSE IF p.cnt = 0 \/ rest2 # <<>>
     THEN [ret |-> -EINVAL, val |-> ULongZero]
     ELSE [ret |-> 0, val |-> p.val]

\* ------------------------------------------------------------------------
\* 32-bit and 64-bit unsigned counters, as 16-bit limbs
\* ------------------------------------------------------------------------
U32Zero == <<0, 0>>
U32Max == <<Limb - 1, Limb - 1>>

\* (a + b) mod 2^32
U32Add(a, b) ==
  LET lo == a[2] + b[2]
  IN << (a[1] + b[1] + (lo \div Limb)) % Limb, lo % Limb >>

\* a 64-bit counter: hi is bits 32..63, lo the low 32 bits
U64Zero == [hi |-> 0, lo |-> U32Zero]
U64Inc(c) ==
  IF c.lo = U32Max THEN [hi |-> c.hi + 1, lo |-> U32Zero]
  ELSE [hi |-> c.hi, lo |-> U32Add(c.lo, <<0, 1>>)]

\* ------------------------------------------------------------------------
\* jiffies
\* ------------------------------------------------------------------------
msecs_to_jiffies(hz, m) ==
  (m + (MSEC_PER_SEC \div hz) - 1) \div (MSEC_PER_SEC \div hz)
jiffies_to_msecs(hz, j) == (MSEC_PER_SEC \div hz) * j

\* ------------------------------------------------------------------------
\* State
\* ------------------------------------------------------------------------
VARIABLES
  trigger_data,  \* struct led_netdev_data: net_dev, device_name, interval,
                 \* last_activity, mode
  lock,          \* holder of trigger_data->lock, or NULL
  work,          \* trigger_data->work: pending, delay, canceling
  led_cdev,      \* the LED: brightness, blink_brightness, max_brightness,
                 \* oneshot (the blink requested last and not stopped)
  netdevs,       \* the device registry (init_net)
  packets,       \* packets counted so far by the registry
  w,             \* the sysfs writers: the *_store call each has in progress
  r,             \* the sysfs reader: a device_name_show call in progress
  n,             \* the notifier chain: a netdev_trig_notify call in progress
  k,             \* the kworker: a netdev_trig_work call in progress
  HZ,            \* timer ticks per second of the build
  serial,        \* TRUE: store calls and notifications do not overlap
  ops,           \* store calls, show calls and registry events yet to start
  hist,          \* observation log: on (recording or not) and log
  core,          \* the LED core: a netdev_trig_deactivate call in progress
  clock          \* timed (delays are timed or not) and pulse_left, the
                 \* milliseconds until the blink issued last is over

vars == << trigger_data, lock, work, led_cdev, netdevs, packets, w, r, n, k,
           HZ, serial, ops, hist, core, clock >>

Events == { "NETDEV_UP", "NETDEV_DOWN", "NETDEV_CHANGE", "NETDEV_REGISTER",
            "NETDEV_UNREGISTER", "NETDEV_CHANGENAME", "NETDEV_GOING_DOWN" }

\* two store calls may be in progress at once; nothing serialises them
Writers == {"W1", "W2"}

\* the frame of a store call: i is the index of strncpy, cur the
\* current_brightness of set_baseline_state
w_idle == [pc |-> "idle", op |-> "none", buf |-> <<>>, attr |-> 0,
           txt |-> <<>>, rest |-> <<>>, ret |-> 0, i |-> 0, cur |-> 0]
\* the frame of netdev_trig_notify: i is the index of strcmp
n_idle == [pc |-> "idle", evt |-> "none", dev |-> NULL, i |-> 0, cur |-> 0]
\* the frame of netdev_trig_work: the net_dev it read first, the counters of
\* dev_get_stats, new_activity, invert
k_idle == [pc |-> "idle", dev |-> NULL, tx |-> U64Zero, rx |-> U64Zero,
           new_activity |-> U32Zero, invert |-> FALSE]
r_idle == [pc |-> "idle"]
core_idle == [pc |-> "idle", gone |-> 0, replay |-> << >>]

\* the attribute files, in the order netdev_trig_deactivate removes them
AttrFiles == << "device_name", "link", "rx", "tx", "interval", "mode" >>

\* the file of a flag
AttrFile(bit) ==
  IF bit = NETDEV_LED_LINK THEN "link"
  ELSE IF bit = NETDEV_LED_TX THEN "tx"
  ELSE "rx"

\* the file a store call was made on
FileOf(f) == IF f.op = "attr" THEN AttrFile(f.attr) ELSE f.op

\* the file exists: netdev_trig_deactivate has not removed it yet
FilePresent(file) ==
  /\ core.pc \in {"idle", "replay", "files"}
  /\ \A i \in 1..core.gone : AttrFiles[i] # file
untimed == [timed |-> FALSE, pulse_left |-> 0]

\* the work item is being executed
Running == k.pc # "idle"

\* trigger_data->interval in milliseconds (what interval_show prints)
pollIntervalMs == jiffies_to_msecs(HZ, trigger_data.interval)

\* ------------------------------------------------------------------------
\* The registry and the LED, as the trigger uses them
\* ------------------------------------------------------------------------
dev_get_by_name(devs, name) ==
  IF \E d \in Devs : devs[d].registered /\ devs[d].name = name
  THEN CHOOSE d \in Devs : devs[d].registered /\ devs[d].name = name
  ELSE NULL

netif_carrier_ok(devs, d) == devs[d].carrier

dev_hold(devs, d) == [devs EXCEPT ![d].refcnt = @ + 1]
dev_put(devs, d) == [devs EXCEPT ![d].refcnt = @ - 1]

led_set_brightness(led, b) == [led EXCEPT !.brightness = b]

\* no blink in progress: both delays are 0
no_blink == [delay_on |-> 0, delay_off |-> 0, invert |-> FALSE]
led_stop_software_blink(led) == [led EXCEPT !.oneshot = no_blink]
led_blink_set_oneshot(led, on, off, invert) ==
  [led EXCEPT !.oneshot = [delay_on |-> on, delay_off |-> off,
                           invert |-> invert]]

\* the length of the blink requested last: on, then off
oneshot_length(led) == led.oneshot.delay_on + led.oneshot.delay_off

\* schedule_delayed_work: a no-op while the work is pending or being cancelled
schedule_delayed_work(wk, delay) ==
  IF wk.pending \/ wk.canceling # NULL THEN wk
  ELSE [wk EXCEPT !.pending = TRUE, !.delay = delay]

\* ------------------------------------------------------------------------
\* set_baseline_state, statement by statement.  Its callers hold the lock
\* (device_name_store, netdev_trig_notify) or do not (netdev_led_attr_store,
\* interval_store): another call may run between any two statements.
\* ------------------------------------------------------------------------
SbsPcs == { "sbs_read", "sbs_keep", "sbs_max", "sbs_linkup", "sbs_off",
            "sbs_link", "sbs_on", "sbs_dark", "sbs_txrx", "sbs_schedule" }

\* a variant of sbs_step that lights the LED one level below
\* blink_brightness
sbs_step_stale(f, done, td, led, wk) ==
  LET at(pc) == [pc |-> pc, cur |-> f.cur, led |-> led, work |-> wk]
  IN CASE f.pc = "sbs_read" ->
            [at(IF led.brightness # 0 THEN "sbs_keep" ELSE "sbs_max")
               EXCEPT !.cur = led.brightness]
       [] f.pc = "sbs_keep" ->
            [at("sbs_max") EXCEPT !.led.blink_brightness = f.cur, !.cur = 0]
       [] f.pc = "sbs_max" ->
            [at("sbs_linkup") EXCEPT !.led.blink_brightness =
               IF @ = 0 THEN led.max_brightness ELSE @]
       [] f.pc = "sbs_linkup" ->
            at(IF NETDEV_LED_MODE_LINKUP \notin td.mode
               THEN "sbs_off" ELSE "sbs_link")
       [] f.pc = "sbs_off" ->
            [at(done) EXCEPT !.led = led_set_brightness(led, LED_OFF)]
       [] f.pc = "sbs_link" ->
            at(IF NETDEV_LED_LINK \in td.mode THEN "sbs_on" ELSE "sbs_dark")
       [] f.pc = "sbs_on" ->
            [at("sbs_txrx") EXCEPT
               !.led = led_set_brightness(led, led.blink_brightness - 1)]
       [] f.pc = "sbs_dark" ->
            [at("sbs_txrx") EXCEPT !.led = led_set_brightness(led, LED_OFF)]
       [] f.pc = "sbs_txrx" ->
            at(IF NETDEV_LED_TX \in td.mode \/ NETDEV_LED_RX \in td.mode
               THEN "sbs_schedule" ELSE done)
       [] f.pc = "sbs_schedule" ->
            [at(done) EXCEPT !.work = schedule_delayed_work(wk, 0)]

\* one statement of set_baseline_state, made by a caller whose frame f holds
\* pc and cur (current_brightness); done is the pc the caller goes on with.
\*   sbs_read      cur = led_cdev->brightness                        (70)
\*   sbs_keep      blink_brightness = cur, when cur is not 0         (71-72)
\*   sbs_max       blink_brightness = max_brightness, when it is 0   (73-74)
\*   sbs_linkup    test_bit(NETDEV_LED_MODE_LINKUP)                  (76)
\*   sbs_off       led_set_brightness(LED_OFF)                       (77)
\*   sbs_link      test_bit(NETDEV_LED_LINK)                         (79)
\*   sbs_on        led_set_brightness(blink_brightness)              (80-81)
\*   sbs_dark      led_set_brightness(LED_OFF)                       (83)
\*   sbs_txrx      test_bit(NETDEV_LED_TX) || test_bit(NETDEV_LED_RX) (88-89)
\*   sbs_schedule  schedule_delayed_work(0)                          (90)
sbs_step(f, done, td, led, wk) ==
  LET at(pc) == [pc |-> pc, cur |-> f.cur, led |-> led, work |-> wk]
  IN CASE f.pc = "sbs_read" ->
            [at(IF led.brightness # 0 THEN "sbs_keep" ELSE "sbs_max")
               EXCEPT !.cur = led.brightness]
       [] f.pc = "sbs_keep" ->
            [at("sbs_max") EXCEPT !.led.blink_brightness = f.cur, !.cur = 0]
       [] f.pc = "sbs_max" ->
            [at("sbs_linkup") EXCEPT !.led.blink_brightness =
               IF @ = 0 THEN led.max_brightness ELSE @]
       [] f.pc = "sbs_linkup" ->
            at(IF NETDEV_LED_MODE_LINKUP \notin td.mode
               THEN "sbs_off" ELSE "sbs_link")
       [] f.pc = "sbs_off" ->
            [at(done) EXCEPT !.led = led_set_brightness(led, LED_OFF)]
       [] f.pc = "sbs_link" ->
            at(IF NETDEV_LED_LINK \in td.mode THEN "sbs_on" ELSE "sbs_dark")
       [] f.pc = "sbs_on" ->
            [at("sbs_txrx") EXCEPT
               !.led = led_set_brightness(led, led.blink_brightness)]
       [] f.pc = "sbs_dark" ->
            [at("sbs_txrx") EXCEPT !.led = led_set_brightness(led, LED_OFF)]
       [] f.pc = "sbs_txrx" ->
            at(IF NETDEV_LED_TX \in td.mode \/ NETDEV_LED_RX \in td.mode
               THEN "sbs_schedule" ELSE done)
       [] f.pc = "sbs_schedule" ->
            [at(done) EXCEPT !.work = schedule_delayed_work(wk, 0)]

RECURSIVE sbs_run(_, _, _, _)
\* the statements of set_baseline_state from frame f to the return
sbs_run(f, td, led, wk) ==
  IF f.pc = "return" THEN [led |-> led, work |-> wk]
  ELSE LET s == sbs_step(f, "return", td, led, wk)
       IN sbs_run([pc |-> s.pc, cur |-> s.cur], td, s.led, s.work)

\* set_baseline_state run as a whole, no other context in between
set_baseline_state(td, led, wk) ==
  sbs_run([pc |-> "sbs_read", cur |-> 0], td, led, wk)

\* ------------------------------------------------------------------------
\* Bodies of the handlers
\* ------------------------------------------------------------------------
\* the byte at index i (from 0) of a C string held without its terminator
CharAt(str, i) == IF i < Len(str) THEN str[i + 1] ELSE NUL

\* the first statement of device_name_store that follows the strncpy and the
\* newline strip: the lookup, when the name is not empty
after_name(name) == IF name[1] # NUL THEN "lookup" ELSE "clear"

\* the first statement that follows the release of the old handle
after_put(td, size) == IF size > 0 THEN "strncpy" ELSE after_name(td.device_name)

\* one statement of the locked section of device_name_store; f holds pc and
\* the index i of strncpy.
\*   put       dev_put(net_dev), when net_dev is set            (122-123)
\*   null      net_dev = NULL                                   (124)
\*   strncpy   one byte of strncpy(device_name, buf, size)      (127)
\*   strip     device_name[size - 1] = 0, when it is a newline  (128-129)
\*   lookup    net_dev = dev_get_by_name(device_name)           (131-133)
\*   clear     clear_bit(NETDEV_LED_MODE_LINKUP)                (135)
\*   carrier   set_bit(LINKUP) when net_dev has carrier         (136-138)
\*   activity  last_activity = 0                                (140)
device_name_store_step(f, td, devs, buf) ==
  LET size == Len(buf)
      at(pc) == [pc |-> pc, i |-> f.i, td |-> td, devs |-> devs]
  IN CASE f.pc = "put" ->
            IF td.net_dev # NULL
            THEN [at("null") EXCEPT !.devs = dev_put(devs, td.net_dev)]
            ELSE at(after_put(td, size))
       [] f.pc = "null" ->
            [at(after_put(td, size)) EXCEPT !.td.net_dev = NULL]
       [] f.pc = "strncpy" ->
            LET c == IF f.i < strlen(buf) THEN buf[f.i + 1] ELSE NUL
                name == [td.device_name EXCEPT ![f.i + 1] = c]
            IN [pc |-> IF f.i + 1 < size THEN "strncpy"
                       ELSE IF name[size] = NL THEN "strip"
                       ELSE after_name(name),
                i |-> IF f.i + 1 < size THEN f.i + 1 ELSE 0,
                td |-> [td EXCEPT !.device_name = name],
                devs |-> devs]
       [] f.pc = "strip" ->
            LET name == [td.device_name EXCEPT ![size] = NUL]
            IN [at(after_name(name)) EXCEPT !.td.device_name = name]
       [] f.pc = "lookup" ->
            LET nd == dev_get_by_name(devs, CStr(td.device_name))
            IN [at("clear") EXCEPT
                  !.td.net_dev = nd,
                  !.devs = IF nd # NULL THEN dev_hold(devs, nd) ELSE devs]
       [] f.pc = "clear" ->
            [at(IF td.net_dev # NULL THEN "carrier" ELSE "activity") EXCEPT
               !.td.mode = @ \ {NETDEV_LED_MODE_LINKUP}]
       [] f.pc = "carrier" ->
            [at("activity") EXCEPT !.td.mode =
               IF netif_carrier_ok(devs, td.net_dev)
               THEN @ \cup {NETDEV_LED_MODE_LINKUP} ELSE @]
       [] f.pc = "activity" ->
            [at("sbs_read") EXCEPT !.td.last_activity = U32Zero]

RECURSIVE device_name_store_run(_, _, _, _)
device_name_store_run(f, td, devs, buf) ==
  IF f.pc = "sbs_read" THEN [td |-> td, devs |-> devs]
  ELSE LET s == device_name_store_step(f, td, devs, buf)
       IN device_name_store_run([pc |-> s.pc, i |-> s.i], s.td, s.devs, buf)

\* device_name_store, from the dev_put to the last_activity reset, run as a
\* whole
device_name_store_body(td, devs, buf) ==
  device_name_store_run([pc |-> "put", i |-> 0], td, devs, buf)

\* netdev_led_attr_store: set_bit / clear_bit
netdev_led_attr_store_body(td, bit, state) ==
  [td EXCEPT !.mode = IF state # ULongZero THEN @ \cup {bit} ELSE @ \ {bit}]

\* a variant of interval_store_body that stores the milliseconds unconverted
interval_store_body_raw(td, hz, value) ==
  [td EXCEPT !.interval = ULongLow(value)]

\* interval_store: atomic_set
interval_store_body(td, hz, value) ==
  [td EXCEPT !.interval = msecs_to_jiffies(hz, ULongLow(value))]

\* interval_store: the bounds on the timer interval
interval_in_bounds(value) ==
  ULongLe(ULong(INTERVAL_MIN), value) /\ ULongLe(value, ULong(INTERVAL_MAX))

\* netdev_trig_notify: the first early return
netdev_trig_notify_filter(evt) ==
  evt \in {"NETDEV_UP", "NETDEV_DOWN", "NETDEV_CHANGE", "NETDEV_REGISTER",
           "NETDEV_UNREGISTER", "NETDEV_CHANGENAME"}

\* strcmp(a, device_name), one byte: the strings differ, are equal, or the
\* comparison goes on with the next byte
strcmp_step(a, name, i) ==
  IF CharAt(a, i) # name[i + 1] THEN "differ"
  ELSE IF CharAt(a, i) = NUL THEN "equal"
  ELSE "next"

\* a variant of notify_clear_bit that leaves the bit alone
notify_clear_bit_kept(td) == td

\* netdev_trig_notify: clear_bit(NETDEV_LED_MODE_LINKUP)
notify_clear_bit(td) == [td EXCEPT !.mode = @ \ {NETDEV_LED_MODE_LINKUP}]

\* a variant of notify_case without the NETDEV_CHANGENAME label
notify_case_keepname(td, evt) ==
  CASE evt = "NETDEV_REGISTER" ->
         IF td.net_dev # NULL THEN "reg_put" ELSE "reg_hold"
    [] evt = "NETDEV_UNREGISTER" ->
         IF td.net_dev # NULL THEN "unreg_put" ELSE "sbs_read"
    [] evt \in {"NETDEV_UP", "NETDEV_CHANGE"} -> "carrier"
    [] OTHER -> "sbs_read"

\* netdev_trig_notify: the case of the switch, and its first statement
notify_case(td, evt) ==
  CASE evt = "NETDEV_REGISTER" ->
         IF td.net_dev # NULL THEN "reg_put" ELSE "reg_hold"
    [] evt \in {"NETDEV_CHANGENAME", "NETDEV_UNREGISTER"} ->
         IF td.net_dev # NULL THEN "unreg_put" ELSE "sbs_read"
    [] evt \in {"NETDEV_UP", "NETDEV_CHANGE"} -> "carrier"
    [] OTHER -> "sbs_read"

\* one statement of the locked section of netdev_trig_notify.
\*   clear       clear_bit(NETDEV_LED_MODE_LINKUP)              (345)
\*   reg_put     dev_put(net_dev), when net_dev is set          (348-349)
\*   reg_hold    dev_hold(dev)                                  (350)
\*   reg_bind    net_dev = dev                                  (351)
\*   unreg_put   dev_put(net_dev), when net_dev is set          (355-356)
\*   unreg_null  net_dev = NULL                                 (357)
\*   carrier     set_bit(LINKUP) when dev has carrier           (362-363)
netdev_trig_notify_step(pc, td, devs, evt, dev) ==
  LET at(p) == [pc |-> p, td |-> td, devs |-> devs]
  IN CASE pc = "clear" ->
            [at(notify_case(td, evt)) EXCEPT !.td = notify_clear_bit(td)]
       [] pc = "reg_put" ->
            [at("reg_hold") EXCEPT !.devs = dev_put(devs, td.net_dev)]
       [] pc = "reg_hold" ->
            [at("reg_bind") EXCEPT !.devs = dev_hold(devs, dev)]
       [] pc = "reg_bind" ->
            [at("sbs_read") EXCEPT !.td.net_dev = dev]
       [] pc = "unreg_put" ->
            [at("unreg_null") EXCEPT !.devs = dev_put(devs, td.net_dev)]
       [] pc = "unreg_null" ->
            [at("sbs_read") EXCEPT !.td.net_dev = NULL]
       [] pc = "carrier" ->
            [at("sbs_read") EXCEPT !.td.mode =
               IF netif_carrier_ok(devs, dev)
               THEN @ \cup {NETDEV_LED_MODE_LINKUP} ELSE @]

\* netdev_trig_work: the sum of the monitored counters, as unsigned int
new_activity(td, tx_packets, rx_packets) ==
  U32Add(IF NETDEV_LED_TX \in td.mode THEN tx_packets.lo ELSE U32Zero,
         IF NETDEV_LED_RX \in td.mode THEN rx_packets.lo ELSE U32Zero)

\* netdev_trig_work: the blink, on and off for the interval in milliseconds
netdev_trig_work_blink(td, led, hz, invert) ==
  led_blink_set_oneshot(led, jiffies_to_msecs(hz, td.interval),
                        jiffies_to_msecs(hz, td.interval), invert)

\* a variant of netdev_trig_work_store that forgets the activity blinked for
netdev_trig_work_store_forgetful(td, activity) == td

\* netdev_trig_work: last_activity = new_activity
netdev_trig_work_store(td, activity) == [td EXCEPT !.last_activity = activity]

\* netdev_trig_work: the delay of the reschedule
netdev_trig_work_delay(td) == td.interval * 2

\* ------------------------------------------------------------------------
\* Initial states
\* ------------------------------------------------------------------------
no_dev == [registered |-> FALSE, name |-> <<>>, carrier |-> FALSE,
           tx_packets |-> U64Zero, rx_packets |-> U64Zero, refcnt |-> 0]

\* registries the trigger may be activated in: no interface, or d1 = "a"
InitRegistries ==
  { [d \in Devs |-> no_dev] } \cup
  { [d \in Devs |-> IF d = "d1"
                    THEN [no_dev EXCEPT !.registered = TRUE, !.name = txt_a,
                                        !.carrier = c]
                    ELSE no_dev] : c \in BOOLEAN }

\* netdev_trig_activate: the state it leaves behind
netdev_trig_activate(hz) ==
  [net_dev |-> NULL,
   device_name |-> [i \in 1..IFNAMSIZ |-> NUL],
   interval |-> msecs_to_jiffies(hz, INTERVAL_DEFAULT),
   last_activity |-> U32Zero,
   mode |-> {NETDEV_LED_LINK}]

\* LEDs the trigger may be activated on: dark, or left at a brightness
InitLeds ==
  { [brightness |-> b, blink_brightness |-> 0, max_brightness |-> LED_FULL,
     oneshot |-> no_blink] : b \in {LED_OFF, 127} }

work_idle == [pending |-> FALSE, delay |-> 0, canceling |-> NULL]

InitThreads ==
  /\ lock = NULL
  /\ packets = 0
  /\ w = [t \in Writers |-> w_idle]
  /\ r = r_idle
  /\ n = n_idle
  /\ k = k_idle
  /\ core = core_idle

\* registries with interface d1 = "a"; its tx counter may be about to wrap
ScenarioRegistries ==
  { [d \in Devs |-> IF d = "d1"
                    THEN [no_dev EXCEPT !.registered = TRUE, !.name = txt_a,
                                        !.carrier = c, !.tx_packets = tx]
                    ELSE no_dev] :
      c \in BOOLEAN,
      tx \in {U64Zero, [hi |-> 0, lo |-> U32Max]} }

\* the state after device_name_store(name) and, when tx is TRUE,
\* tx_store("1"), on a trigger activated with interval ms
AfterSetup(reg, led, ms, tx, name) ==
  LET td0 == interval_store_body(netdev_trig_activate(HZ), HZ, ULong(ms))
      r1 == device_name_store_body(td0, reg, name)
      s1 == set_baseline_state(r1.td, led, work_idle)
      td2 == IF tx
             THEN netdev_led_attr_store_body(r1.td, NETDEV_LED_TX, ULong(1))
             ELSE r1.td
      s2 == set_baseline_state(td2, s1.led, work_idle)
  IN [td |-> td2, devs |-> r1.devs, led |-> s2.led, work |-> s2.work]

\* the trigger as netdev_trig_activate leaves it in one of the registries
\* regs on one of the LEDs leds, or as the writes of AfterSetup leave it
Activated(regs, leds, names) ==
  { [td |-> netdev_trig_activate(HZ), devs |-> g, led |-> l,
     work |-> work_idle] : g \in regs, l \in leds }
  \cup
  { AfterSetup(g, l, INTERVAL_DEFAULT, tx, name) :
      g \in {g \in regs : g["d1"].registered}, l \in leds, tx \in BOOLEAN,
      name \in names }

\* store calls, show calls and notifications overlap freely; interface
\* d1 = "a" is registered and the LED is dark
Init ==
  /\ HZ = 1000
  /\ serial = FALSE
  /\ hist = [on |-> FALSE, log |-> <<>>]
  /\ clock = untimed
  /\ \E a \in Activated({g \in InitRegistries : g["d1"].registered},
                        {l \in InitLeds : l.brightness = LED_OFF},
                        {txt_a \o <<NL>>}) :
       /\ trigger_data = a.td
       /\ netdevs = a.devs
       /\ led_cdev = a.led
       /\ work = a.work
  /\ ops = MaxOps
  /\ InitThreads

\* one store call, show call or notification at a time, any tick rate; the
\* name written before may be that of no interface
InitSerial ==
  /\ HZ \in HZValues
  /\ serial = TRUE
  /\ hist = [on |-> FALSE, log |-> <<>>]
  /\ clock = untimed
  /\ \E a \in Activated(InitRegistries, InitLeds,
                        {txt_a \o <<NL>>, txt_ab \o <<NL>>}) :
       /\ trigger_data = a.td
       /\ netdevs = a.devs
       /\ led_cdev = a.led
       /\ work = a.work
  /\ ops = MaxOps
  /\ InitThreads

\* ------------------------------------------------------------------------
\* cancel_delayed_work_sync, in two steps: take the work off the queue and
\* block queueing, then wait for a running netdev_trig_work to return
\* ------------------------------------------------------------------------
cancel_begin(wk, t) == [pending |-> FALSE, delay |-> 0, canceling |-> t]
cancel_end(wk) == [wk EXCEPT !.canceling = NULL]

\* ------------------------------------------------------------------------
\* The sysfs writers
\* ------------------------------------------------------------------------
\* no store call, show call or notification is in progress
AllIdle ==
  /\ n.pc = "idle"
  /\ r.pc = "idle"
  /\ \A u \in Writers : w[u].pc = "idle"

\* a write to an attribute file starts a store call until
\* netdev_trig_deactivate has removed the file; the two writers are alike,
\* and a call is W2's only while W1 has one
MayStartW(t, file) ==
  /\ w[t].pc = "idle"
  /\ t = "W2" => w["W1"].pc # "idle"
  /\ FilePresent(file)
  /\ serial => AllIdle
  /\ ops > 0
  /\ ops' = ops - 1

\* a variant of the size check that lets a name of IFNAMSIZ bytes through
device_name_store_rejects_late(size) == size > IFNAMSIZ

\* device_name_store: the size check
device_name_store_rejects(size) == size >= IFNAMSIZ

device_name_store_enter(t) ==
  /\ MayStartW(t, "device_name")
  /\ \E buf \in NameInputs :
       w' = [w EXCEPT ![t] =
               IF device_name_store_rejects(Len(buf))
               THEN [w_idle EXCEPT !.pc = "ret", !.op = "device_name",
                                   !.buf = buf, !.ret = -EINVAL]
               ELSE [w_idle EXCEPT !.pc = "cancel", !.op = "device_name",
                                   !.buf = buf]]
  /\ UNCHANGED << trigger_data, lock, work, led_cdev, netdevs, packets, r, n,
                  k, HZ, core, clock, serial, hist >>

\* link_store, tx_store, rx_store -> netdev_led_attr_store: kstrtoul
netdev_led_attr_store_enter(t) ==
  /\ \E bit \in {NETDEV_LED_LINK, NETDEV_LED_TX, NETDEV_LED_RX},
        buf \in FlagInputs :
       /\ MayStartW(t, AttrFile(bit))
       /\ w' = [w EXCEPT ![t] =
               IF kstrtoul(buf).ret # 0
               THEN [w_idle EXCEPT !.pc = "ret", !.op = "attr", !.buf = buf,
                                   !.attr = bit, !.ret = kstrtoul(buf).ret]
               ELSE [w_idle EXCEPT !.pc = "cancel", !.op = "attr",
                                   !.buf = buf, !.attr = bit, !.txt = buf]]
  /\ UNCHANGED << trigger_data, lock, work, led_cdev, netdevs, packets, r, n,
                  k, HZ, core, clock, serial, hist >>

\* mode_store: three netdev_led_attr_store calls with "1" or "0"
mode_store_calls(buf) ==
  << [attr |-> NETDEV_LED_LINK,
      txt |-> IF strstr(buf, txt_link) THEN txt_1 ELSE txt_0],
     [attr |-> NETDEV_LED_TX,
      txt |-> IF strstr(buf, txt_tx) THEN txt_1 ELSE txt_0],
     [attr |-> NETDEV_LED_RX,
      txt |-> IF strstr(buf, txt_rx) THEN txt_1 ELSE txt_0] >>

mode_store_enter(t) ==
  /\ MayStartW(t, "mode")
  /\ \E buf \in ModeInputs :
       w' = [w EXCEPT ![t] =
               [w_idle EXCEPT !.pc = "cancel", !.op = "mode", !.buf = buf,
                              !.attr = mode_store_calls(buf)[1].attr,
                              !.txt = mode_store_calls(buf)[1].txt,
                              !.rest = Tail(mode_store_calls(buf))]]
  /\ UNCHANGED << trigger_data, lock, work, led_cdev, netdevs, packets, r, n,
                  k, HZ, core, clock, serial, hist >>

\* interval_store: kstrtoul and the bounds
interval_store_enter(t) ==
  /\ MayStartW(t, "interval")
  /\ \E buf \in IntervalInputs :
       w' = [w EXCEPT ![t] =
               IF kstrtoul(buf).ret # 0
               THEN [w_idle EXCEPT !.pc = "ret", !.op = "interval",
                                   !.buf = buf, !.ret = kstrtoul(buf).ret]
               ELSE IF interval_in_bounds(kstrtoul(buf).val)
               THEN [w_idle EXCEPT !.pc = "cancel", !.op = "interval",
                                   !.buf = buf, !.txt = buf]
               ELSE [w_idle EXCEPT !.pc = "ret", !.op = "interval",
                                   !.buf = buf, !.ret = Len(buf)]]
  /\ UNCHANGED << trigger_data, lock, work, led_cdev, netdevs, packets, r, n,
                  k, HZ, core, clock, serial, hist >>

\* cancel_delayed_work_sync(&trigger_data->work), first half
store_cancel_begin(t) ==
  /\ w[t].pc = "cancel"
  /\ work.canceling = NULL
  /\ work' = cancel_begin(work, t)
  /\ w' = [w EXCEPT ![t].pc = "cancel_wait"]
  /\ UNCHANGED << trigger_data, lock, led_cdev, netdevs, packets, r, n, k, HZ,
                  core, clock, ops, serial, hist >>

\* cancel_delayed_work_sync(&trigger_data->work), second half
store_cancel_wait(t) ==
  /\ w[t].pc = "cancel_wait"
  /\ ~Running
  /\ work' = cancel_end(work)
  /\ w' = [w EXCEPT ![t].pc =
             IF w[t].op = "device_name" THEN "lock" ELSE "body"]
  /\ UNCHANGED << trigger_data, lock, led_cdev, netdevs, packets, r, n, k, HZ,
                  core, clock, ops, serial, hist >>

\* device_name_store: spin_lock_bh
device_name_store_lock(t) ==
  /\ w[t].pc = "lock"
  /\ lock = NULL
  /\ lock' = t
  /\ w' = [w EXCEPT ![t].pc = "put"]
  /\ UNCHANGED << trigger_data, work, led_cdev, netdevs, packets, r, n, k, HZ,
                  core, clock, ops, serial, hist >>

\* the statements of device_name_store between the lock and
\* set_baseline_state
DeviceNameStorePcs ==
  { "put", "null", "strncpy", "strip", "lookup", "clear", "carrier",
    "activity" }

\* device_name_store: one statement of the rebind
device_name_store_rebind(t) ==
  /\ w[t].pc \in DeviceNameStorePcs
  /\ LET s == device_name_store_step(w[t], trigger_data, netdevs, w[t].buf)
     IN /\ trigger_data' = s.td
        /\ netdevs' = s.devs
        /\ w' = [w EXCEPT ![t].pc = s.pc, ![t].i = s.i]
  /\ UNCHANGED << lock, work, led_cdev, packets, r, n, k, HZ, core, clock,
                  ops, serial, hist >>

\* netdev_led_attr_store: set or clear the bit
netdev_led_attr_store_bit(t) ==
  /\ w[t].pc = "body" /\ w[t].op \in {"attr", "mode"}
  /\ trigger_data' =
       netdev_led_attr_store_body(trigger_data, w[t].attr,
                                  kstrtoul(w[t].txt).val)
  /\ w' = [w EXCEPT ![t].pc = "sbs_read"]
  /\ UNCHANGED << lock, work, led_cdev, netdevs, packets, r, n, k, HZ, core,
                  clock, ops, serial, hist >>

\* interval_store: atomic_set
interval_store_set(t) ==
  /\ w[t].pc = "body" /\ w[t].op = "interval"
  /\ trigger_data' =
       interval_store_body(trigger_data, HZ, kstrtoul(w[t].txt).val)
  /\ w' = [w EXCEPT ![t].pc = "sbs_read"]
  /\ UNCHANGED << lock, work, led_cdev, netdevs, packets, r, n, k, HZ, core,
                  clock, ops, serial, hist >>

\* where a store handler goes on after set_baseline_state: the unlock, the
\* next netdev_led_attr_store call of mode_store, or the return
after_sbs(f) ==
  IF f.op = "device_name" THEN "unlock"
  ELSE IF f.rest # <<>> THEN "cancel"
  ELSE "ret"

\* one statement of the set_baseline_state call of a store handler
store_set_baseline_state(t) ==
  /\ w[t].pc \in SbsPcs
  /\ LET s == sbs_step(w[t], after_sbs(w[t]), trigger_data, led_cdev, work)
     IN /\ led_cdev' = s.led
        /\ work' = s.work
        /\ w' = [w EXCEPT ![t] =
                   IF s.pc = "cancel"
                   THEN [@ EXCEPT !.pc = "cancel", !.cur = s.cur,
                                  !.attr = Head(w[t].rest).attr,
                                  !.txt = Head(w[t].rest).txt,
                                  !.rest = Tail(w[t].rest)]
                   ELSE IF s.pc = "ret"
                   THEN [@ EXCEPT !.pc = "ret", !.cur = s.cur,
                                  !.ret = Len(w[t].buf)]
                   ELSE [@ EXCEPT !.pc = s.pc, !.cur = s.cur]]
  /\ UNCHANGED << trigger_data, lock, netdevs, packets, r, n, k, HZ, core,
                  clock, ops, serial, hist >>

\* device_name_store: spin_unlock_bh
device_name_store_unlock(t) ==
  /\ w[t].pc = "unlock"
  /\ lock' = NULL
  /\ w' = [w EXCEPT ![t].pc = "ret", ![t].ret = Len(w[t].buf)]
  /\ UNCHANGED << trigger_data, work, led_cdev, netdevs, packets, r, n, k, HZ,
                  core, clock, ops, serial, hist >>

\* the store handler returns to its caller
store_return(t) ==
  /\ w[t].pc = "ret"
  /\ w' = [w EXCEPT ![t] = w_idle]
  /\ UNCHANGED << trigger_data, lock, work, led_cdev, netdevs, packets, r, n,
                  k, HZ, core, clock, ops, serial, hist >>

\* ------------------------------------------------------------------------
\* The sysfs reader: device_name_show holds the lock around its sprintf
\* ------------------------------------------------------------------------
\* device_name_show: spin_lock_bh
device_name_show_lock ==
  /\ r.pc = "idle"
  /\ FilePresent("device_name")
  /\ serial => AllIdle
  /\ lock = NULL
  /\ ops > 0
  /\ ops' = ops - 1
  /\ lock' = "R"
  /\ r' = [r EXCEPT !.pc = "show"]
  /\ UNCHANGED << trigger_data, work, led_cdev, netdevs, packets, w, n, k, HZ,
                  core, clock, serial, hist >>

\* device_name_show: sprintf, spin_unlock_bh and return
device_name_show_unlock ==
  /\ r.pc = "show"
  /\ lock' = NULL
  /\ r' = r_idle
  /\ UNCHANGED << trigger_data, work, led_cdev, netdevs, packets, w, n, k, HZ,
                  core, clock, ops, serial, hist >>

\* ------------------------------------------------------------------------
\* The device registry: it makes one change at a time, under its lock, and
\* calls the notifiers on its chain before it makes the next one
\* ------------------------------------------------------------------------
\* netdev_trig_notify is on the chain from netdev_trig_activate until
\* unregister_netdevice_notifier takes it off
OnChain == core.pc = "idle"

\* the registry's lock is free: no notification is being handled, and
\* unregister_netdevice_notifier is not replaying events
MayStartN ==
  /\ n.pc = "idle"
  /\ core.pc # "replay"
  /\ serial => AllIdle
  /\ ops > 0
  /\ ops' = ops - 1

\* the registry notifies of event evt of interface d: netdev_trig_notify is
\* called if it is on the chain
call_netdevice_notifiers(evt, d) ==
  IF OnChain
  THEN [n_idle EXCEPT !.pc = "entry", !.evt = evt, !.dev = d]
  ELSE n_idle

NameFree(name) == \A d \in Devs : netdevs[d].registered => netdevs[d].name # name

\* a new interface appears: NETDEV_REGISTER
register_netdevice ==
  /\ MayStartN
  /\ \E d \in Devs, name \in IfNames :
       /\ ~netdevs[d].registered /\ netdevs[d].refcnt = 0
       /\ NameFree(name)
       /\ netdevs' = [netdevs EXCEPT ![d] =
                        [no_dev EXCEPT !.registered = TRUE, !.name = name]]
       /\ n' = call_netdevice_notifiers("NETDEV_REGISTER", d)
  /\ UNCHANGED << trigger_data, lock, work, led_cdev, packets, w, r, k, HZ,
                  core, clock, serial, hist >>

\* an interface goes away: NETDEV_UNREGISTER
unregister_netdevice ==
  /\ MayStartN
  /\ \E d \in Devs :
       /\ netdevs[d].registered
       /\ netdevs' = [netdevs EXCEPT ![d].registered = FALSE,
                                     ![d].carrier = FALSE]
       /\ n' = call_netdevice_notifiers("NETDEV_UNREGISTER", d)
  /\ UNCHANGED << trigger_data, lock, work, led_cdev, packets, w, r, k, HZ,
                  core, clock, serial, hist >>

\* an interface is renamed: NETDEV_CHANGENAME, carrying the new name
dev_change_name ==
  /\ MayStartN
  /\ \E d \in Devs, name \in IfNames :
       /\ netdevs[d].registered
       /\ NameFree(name)
       /\ netdevs' = [netdevs EXCEPT ![d].name = name]
       /\ n' = call_netdevice_notifiers("NETDEV_CHANGENAME", d)
  /\ UNCHANGED << trigger_data, lock, work, led_cdev, packets, w, r, k, HZ,
                  core, clock, serial, hist >>

\* the body of a link event: NETDEV_UP, NETDEV_DOWN or NETDEV_CHANGE, with
\* the carrier the driver leaves; a driver may leave the carrier on when the
\* interface goes down
link_event_of(d, evt, c) ==
  /\ netdevs[d].registered
  /\ netdevs' = [netdevs EXCEPT ![d].carrier = c]
  /\ n' = call_netdevice_notifiers(evt, d)

link_event ==
  /\ MayStartN
  /\ \E d \in Devs, evt \in {"NETDEV_UP", "NETDEV_DOWN", "NETDEV_CHANGE"},
        c \in BOOLEAN : link_event_of(d, evt, c)
  /\ UNCHANGED << trigger_data, lock, work, led_cdev, packets, w, r, k, HZ,
                  core, clock, serial, hist >>

\* an event netdev_trig_notify does not handle
other_event ==
  /\ MayStartN
  /\ \E d \in Devs :
       /\ netdevs[d].registered
       /\ n' = call_netdevice_notifiers("NETDEV_GOING_DOWN", d)
  /\ UNCHANGED << trigger_data, lock, work, led_cdev, netdevs, packets, w, r,
                  k, HZ, core, clock, serial, hist >>

\* the interface counts a packet
traffic ==
  /\ packets < MaxTraffic
  /\ packets' = packets + 1
  /\ \E d \in Devs :
       /\ netdevs[d].registered
       /\ \/ netdevs' = [netdevs EXCEPT ![d].tx_packets = U64Inc(@)]
          \/ netdevs' = [netdevs EXCEPT ![d].rx_packets = U64Inc(@)]
  /\ UNCHANGED << trigger_data, lock, work, led_cdev, w, r, n, k, HZ, core,
                  clock, ops, serial, hist >>

\* ------------------------------------------------------------------------
\* netdev_trig_notify
\* ------------------------------------------------------------------------
\* the event filter
notify_filter ==
  /\ n.pc = "entry"
  /\ n' = IF netdev_trig_notify_filter(n.evt)
          THEN [n EXCEPT !.pc = "strcmp"]
          ELSE n_idle
  /\ UNCHANGED << trigger_data, lock, work, led_cdev, netdevs, packets, w, r,
                  k, HZ, core, clock, ops, serial, hist >>

\* strcmp(dev->name, device_name), one byte at a time; the lock is not held,
\* and device_name_store may write device_name meanwhile
notify_strcmp ==
  /\ n.pc = "strcmp"
  /\ LET c == strcmp_step(netdevs[n.dev].name, trigger_data.device_name, n.i)
     IN n' = IF c = "differ" THEN n_idle
             ELSE IF c = "equal" THEN [n EXCEPT !.pc = "cancel", !.i = 0]
             ELSE [n EXCEPT !.i = n.i + 1]
  /\ UNCHANGED << trigger_data, lock, work, led_cdev, netdevs, packets, w, r,
                  k, HZ, core, clock, ops, serial, hist >>

notify_cancel_begin ==
  /\ n.pc = "cancel"
  /\ work.canceling = NULL
  /\ work' = cancel_begin(work, "N")
  /\ n' = [n EXCEPT !.pc = "cancel_wait"]
  /\ UNCHANGED << trigger_data, lock, led_cdev, netdevs, packets, w, r, k, HZ,
                  core, clock, ops, serial, hist >>

notify_cancel_wait ==
  /\ n.pc = "cancel_wait"
  /\ ~Running
  /\ work' = cancel_end(work)
  /\ n' = [n EXCEPT !.pc = "lock"]
  /\ UNCHANGED << trigger_data, lock, led_cdev, netdevs, packets, w, r, k, HZ,
                  core, clock, ops, serial, hist >>

notify_lock ==
  /\ n.pc = "lock"
  /\ lock = NULL
  /\ lock' = "N"
  /\ n' = [n EXCEPT !.pc = "clear"]
  /\ UNCHANGED << trigger_data, work, led_cdev, netdevs, packets, w, r, k, HZ,
                  core, clock, ops, serial, hist >>

\* the statements of netdev_trig_notify between the lock and
\* set_baseline_state
NotifyPcs ==
  { "clear", "reg_put", "reg_hold", "reg_bind", "unreg_put", "unreg_null",
    "carrier" }

\* one statement of clear_bit(NETDEV_LED_MODE_LINKUP) and the switch
notify_switch ==
  /\ n.pc \in NotifyPcs
  /\ LET s == netdev_trig_notify_step(n.pc, trigger_data, netdevs, n.evt,
                                      n.dev)
     IN /\ trigger_data' = s.td
        /\ netdevs' = s.devs
        /\ n' = [n EXCEPT !.pc = s.pc]
  /\ UNCHANGED << lock, work, led_cdev, packets, w, r, k, HZ, core, clock,
                  ops, serial, hist >>

\* one statement of the set_baseline_state call of netdev_trig_notify
notify_set_baseline_state ==
  /\ n.pc \in SbsPcs
  /\ LET s == sbs_step(n, "unlock", trigger_data, led_cdev, work)
     IN /\ led_cdev' = s.led
        /\ work' = s.work
        /\ n' = [n EXCEPT !.pc = s.pc, !.cur = s.cur]
  /\ UNCHANGED << trigger_data, lock, netdevs, packets, w, r, k, HZ, core,
                  clock, ops, serial, hist >>

\* spin_unlock_bh and return NOTIFY_DONE; the log notes the event, the carrier
\* and the level the indicator is left at
notify_unlock ==
  /\ n.pc = "unlock"
  /\ lock' = NULL
  /\ n' = n_idle
  /\ hist' = IF hist.on
             THEN [hist EXCEPT !.log =
                     Append(@, [evt |-> n.evt,
                                carrier |-> netdevs[n.dev].carrier,
                                level |-> led_cdev.brightness])]
             ELSE hist
  /\ UNCHANGED << trigger_data, work, led_cdev, netdevs, packets, w, r, k, HZ,
                  core, clock, ops, serial >>

\* ------------------------------------------------------------------------
\* netdev_trig_work, statement by statement: it holds no lock
\* ------------------------------------------------------------------------
\* the interface has been released by the trigger and by the registry
Freed(d) == ~netdevs[d].registered /\ netdevs[d].refcnt = 0

\* the kworker takes the work item off the queue, once its delay has passed
work_start ==
  /\ work.pending /\ k.pc = "idle"
  /\ clock.timed => work.delay = 0
  /\ work' = [work EXCEPT !.pending = FALSE, !.delay = 0]
  /\ k' = [k EXCEPT !.pc = "net_dev"]
  /\ UNCHANGED << trigger_data, lock, led_cdev, netdevs, packets, w, r, n, HZ,
                  core, clock, ops, serial, hist >>

\* if (!trigger_data->net_dev)
work_net_dev ==
  /\ k.pc = "net_dev"
  /\ k' = IF trigger_data.net_dev = NULL THEN [k EXCEPT !.pc = "led_off"]
          ELSE [k EXCEPT !.pc = "txrx", !.dev = trigger_data.net_dev]
  /\ UNCHANGED << trigger_data, lock, work, led_cdev, netdevs, packets, w, r,
                  n, HZ, core, clock, ops, serial, hist >>

\* led_set_brightness(LED_OFF) and return
work_led_off ==
  /\ k.pc = "led_off"
  /\ led_cdev' = led_set_brightness(led_cdev, LED_OFF)
  /\ k' = k_idle
  /\ UNCHANGED << trigger_data, lock, work, netdevs, packets, w, r, n, HZ,
                  core, clock, ops, serial, hist >>

\* if (!test_bit(NETDEV_LED_TX) && !test_bit(NETDEV_LED_RX)) return
work_txrx ==
  /\ k.pc = "txrx"
  /\ k' = IF NETDEV_LED_TX \notin trigger_data.mode
             /\ NETDEV_LED_RX \notin trigger_data.mode
          THEN k_idle
          ELSE [k EXCEPT !.pc = "stats"]
  /\ UNCHANGED << trigger_data, lock, work, led_cdev, netdevs, packets, w, r,
                  n, HZ, core, clock, ops, serial, hist >>

\* dev_get_stats(trigger_data->net_dev, &temp).  net_dev is read again
\* without the lock: the build may reuse the value of the first read or load
\* the current one; a NULL or freed interface may stop the kworker (oops)
work_stats ==
  /\ k.pc = "stats"
  /\ \E d \in {k.dev, trigger_data.net_dev} :
       \/ /\ d = NULL \/ (d # NULL /\ Freed(d))
          /\ k' = [k EXCEPT !.pc = "oops", !.dev = d]
       \/ /\ d # NULL
          /\ k' = [k EXCEPT !.pc = "activity", !.dev = d,
                            !.tx = netdevs[d].tx_packets,
                            !.rx = netdevs[d].rx_packets]
  /\ UNCHANGED << trigger_data, lock, work, led_cdev, netdevs, packets, w, r,
                  n, HZ, core, clock, ops, serial, hist >>

\* new_activity = (tx ? tx_packets : 0) + (rx ? rx_packets : 0)
work_activity ==
  /\ k.pc = "activity"
  /\ k' = [k EXCEPT !.pc = "compare",
                    !.new_activity = new_activity(trigger_data, k.tx, k.rx)]
  /\ UNCHANGED << trigger_data, lock, work, led_cdev, netdevs, packets, w, r,
                  n, HZ, core, clock, ops, serial, hist >>

\* if (last_activity != new_activity) led_stop_software_blink
work_compare ==
  /\ k.pc = "compare"
  /\ IF trigger_data.last_activity # k.new_activity
     THEN /\ led_cdev' = led_stop_software_blink(led_cdev)
          /\ k' = [k EXCEPT !.pc = "invert"]
     ELSE /\ k' = [k EXCEPT !.pc = "resched"]
          /\ UNCHANGED led_cdev
  /\ UNCHANGED << trigger_data, lock, work, netdevs, packets, w, r, n, HZ,
                  core, clock, ops, serial, hist >>

\* invert = test_bit(NETDEV_LED_LINK)
work_invert ==
  /\ k.pc = "invert"
  /\ k' = [k EXCEPT !.pc = "blink",
                    !.invert = NETDEV_LED_LINK \in trigger_data.mode]
  /\ UNCHANGED << trigger_data, lock, work, led_cdev, netdevs, packets, w, r,
                  n, HZ, core, clock, ops, serial, hist >>

\* interval = jiffies_to_msecs(atomic_read(&interval)) and
\* led_blink_set_oneshot; the log notes the counters blinked for
work_blink ==
  /\ k.pc = "blink"
  /\ led_cdev' = netdev_trig_work_blink(trigger_data, led_cdev, HZ, k.invert)
  /\ hist' = IF hist.on
             THEN [hist EXCEPT !.log =
                     Append(@, [evt |-> "blink", tx |-> k.tx, rx |-> k.rx])]
             ELSE hist
  /\ clock' = IF clock.timed
              THEN [clock EXCEPT !.pulse_left = oneshot_length(led_cdev')]
              ELSE clock
  /\ k' = [k EXCEPT !.pc = "store"]
  /\ UNCHANGED << trigger_data, lock, work, netdevs, packets, w, r, n, HZ,
                  core, ops, serial >>

\* trigger_data->last_activity = new_activity
work_store ==
  /\ k.pc = "store"
  /\ trigger_data' = netdev_trig_work_store(trigger_data, k.new_activity)
  /\ k' = [k EXCEPT !.pc = "resched"]
  /\ UNCHANGED << lock, work, led_cdev, netdevs, packets, w, r, n, HZ, core,
                  clock, ops, serial, hist >>

\* schedule_delayed_work(2 * interval) and return
work_resched ==
  /\ k.pc = "resched"
  /\ work' = schedule_delayed_work(work, netdev_trig_work_delay(trigger_data))
  /\ k' = k_idle
  /\ UNCHANGED << trigger_data, lock, led_cdev, netdevs, packets, w, r, n, HZ,
                  core, clock, ops, serial, hist >>

\* ------------------------------------------------------------------------
\* netdev_trig_deactivate, called by the LED core when the trigger is taken
\* off the LED
\* ------------------------------------------------------------------------
\* unregister_netdevice_notifier takes the registry's lock, so it starts when
\* no notification is being handled, takes netdev_trig_notify off the chain
\* and then calls it for every interface of the registry, as if the interface
\* went away: NETDEV_GOING_DOWN and NETDEV_DOWN if the interface is up, then
\* NETDEV_UNREGISTER. The interfaces are visited in the order of the registry
DevOrder == << "d1", "d2" >>

\* an interface may be up or down (IFF_UP), whatever its carrier
MayBeUp(d) == BOOLEAN

\* the events replayed for interface d
replay_of(d, up) ==
  IF ~netdevs[d].registered THEN << >>
  ELSE (IF up THEN << [evt |-> "NETDEV_GOING_DOWN", dev |-> d],
                      [evt |-> "NETDEV_DOWN", dev |-> d] >>
        ELSE << >>)
       \o << [evt |-> "NETDEV_UNREGISTER", dev |-> d] >>

deactivate_unregister_notifier ==
  /\ core.pc = "idle"
  /\ n.pc = "idle"
  /\ \E up1 \in MayBeUp(DevOrder[1]), up2 \in MayBeUp(DevOrder[2]) :
       core' = [core EXCEPT !.pc = "replay",
                            !.replay = replay_of(DevOrder[1], up1)
                                       \o replay_of(DevOrder[2], up2)]
  /\ UNCHANGED << trigger_data, lock, work, led_cdev, netdevs, packets, w, r,
                  n, k, HZ, clock, serial, ops, hist >>

\* the next replayed event: netdev_trig_notify is called when its previous
\* call has returned
deactivate_replay ==
  /\ core.pc = "replay"
  /\ n.pc = "idle"
  /\ core.replay # << >>
  /\ n' = [n_idle EXCEPT !.pc = "entry", !.evt = Head(core.replay).evt,
                         !.dev = Head(core.replay).dev]
  /\ core' = [core EXCEPT !.replay = Tail(core.replay)]
  /\ UNCHANGED << trigger_data, lock, work, led_cdev, netdevs, packets, w, r,
                  k, HZ, clock, serial, ops, hist >>

\* unregister_netdevice_notifier returns when the last replayed call has
\* returned
deactivate_replay_done ==
  /\ core.pc = "replay"
  /\ n.pc = "idle"
  /\ core.replay = << >>
  /\ core' = [core EXCEPT !.pc = "files"]
  /\ UNCHANGED << trigger_data, lock, work, led_cdev, netdevs, packets, w, r,
                  n, k, HZ, clock, serial, ops, hist >>

\* device_remove_file of the next file: it returns when no store or show
\* call on that file is in progress, and none starts afterwards
device_remove_file ==
  /\ core.pc = "files"
  /\ LET file == AttrFiles[core.gone + 1]
     IN /\ \A t \in Writers : w[t].pc = "idle" \/ FileOf(w[t]) # file
        /\ file = "device_name" => r.pc = "idle"
  /\ core' = IF core.gone + 1 = Len(AttrFiles)
             THEN [core EXCEPT !.pc = "cancel", !.gone = Len(AttrFiles)]
             ELSE [core EXCEPT !.gone = core.gone + 1]
  /\ UNCHANGED << trigger_data, lock, work, led_cdev, netdevs, packets, w, r,
                  n, k, HZ, clock, serial, ops, hist >>

deactivate_cancel_begin ==
  /\ core.pc = "cancel"
  /\ work.canceling = NULL
  /\ work' = cancel_begin(work, "D")
  /\ core' = [core EXCEPT !.pc = "cancel_wait"]
  /\ UNCHANGED << trigger_data, lock, led_cdev, netdevs, packets, w, r, n, k,
                  HZ, clock, serial, ops, hist >>

\* a variant of deactivate_cancel_wait that does not wait for a running
\* netdev_trig_work (cancel_delayed_work without _sync)
deactivate_cancel_nowait ==
  /\ core.pc = "cancel_wait"
  /\ work' = cancel_end(work)
  /\ core' = [core EXCEPT !.pc = "put"]
  /\ UNCHANGED << trigger_data, lock, led_cdev, netdevs, packets, w, r, n, k,
                  HZ, clock, serial, ops, hist >>

deactivate_cancel_wait ==
  /\ core.pc = "cancel_wait"
  /\ ~Running
  /\ work' = cancel_end(work)
  /\ core' = [core EXCEPT !.pc = "put"]
  /\ UNCHANGED << trigger_data, lock, led_cdev, netdevs, packets, w, r, n, k,
                  HZ, clock, serial, ops, hist >>

\* a variant of netdev_trig_deactivate_body that keeps the reference
netdev_trig_deactivate_body_leak(td, devs) == devs

\* netdev_trig_deactivate: the dev_put of the bound interface
netdev_trig_deactivate_body(td, devs) ==
  IF td.net_dev # NULL THEN dev_put(devs, td.net_dev) ELSE devs

\* dev_put and kfree(trigger_data): done, the state is destroyed
deactivate_free ==
  /\ core.pc = "put"
  /\ netdevs' = netdev_trig_deactivate_body(trigger_data, netdevs)
  /\ core' = [core EXCEPT !.pc = "done"]
  /\ UNCHANGED << trigger_data, lock, work, led_cdev, packets, w, r, n, k, HZ,
                  clock, serial, ops, hist >>

\* ------------------------------------------------------------------------
\* Time, where delays are timed: one timer tick (jiffy) passes
\* ------------------------------------------------------------------------
time_passes ==
  /\ clock.timed
  /\ (work.pending /\ work.delay > 0) \/ clock.pulse_left > 0
  /\ work' = IF work.pending /\ work.delay > 0
             THEN [work EXCEPT !.delay = @ - 1] ELSE work
  /\ clock' = [clock EXCEPT !.pulse_left =
                 IF @ > MSEC_PER_SEC \div HZ THEN @ - MSEC_PER_SEC \div HZ
                 ELSE 0]
  /\ UNCHANGED << trigger_data, lock, led_cdev, netdevs, packets, w, r, n, k,
                  HZ, core, serial, ops, hist >>

\* ------------------------------------------------------------------------
\* Specifications
\* ------------------------------------------------------------------------
\* a store call is started
StoreEnters ==
  \E t \in Writers :
    \/ device_name_store_enter(t)
    \/ netdev_led_attr_store_enter(t)
    \/ mode_store_enter(t)
    \/ interval_store_enter(t)

\* the steps of a device-name or flag write that has been started
NameAndFlagSteps ==
  \E t \in Writers :
    \/ store_cancel_begin(t)
    \/ store_cancel_wait(t)
    \/ device_name_store_lock(t)
    \/ device_name_store_rebind(t)
    \/ netdev_led_attr_store_bit(t)
    \/ store_set_baseline_state(t)
    \/ device_name_store_unlock(t)
    \/ store_return(t)

\* the steps of a store call that has been started
StoreSteps ==
  \/ NameAndFlagSteps
  \/ \E t \in Writers : interval_store_set(t)

\* a change of the registry, and its notification
RegistryEvents ==
  \/ register_netdevice
  \/ unregister_netdevice
  \/ dev_change_name
  \/ link_event
  \/ other_event

\* the steps of a notification that has been delivered
NotifySteps ==
  \/ notify_filter
  \/ notify_strcmp
  \/ notify_cancel_begin
  \/ notify_cancel_wait
  \/ notify_lock
  \/ notify_switch
  \/ notify_set_baseline_state
  \/ notify_unlock

\* the steps of the work item while a device is bound
PollSteps ==
  \/ work_start
  \/ work_net_dev
  \/ work_txrx
  \/ work_stats
  \/ work_activity
  \/ work_compare
  \/ work_invert
  \/ work_blink
  \/ work_store
  \/ work_resched

\* the steps of the work item
WorkSteps ==
  \/ PollSteps
  \/ work_led_off

\* the steps of a show call
ShowSteps ==
  \/ device_name_show_lock
  \/ device_name_show_unlock

\* the steps of a deactivation that has been started
DeactivateSteps ==
  \/ deactivate_replay
  \/ deactivate_replay_done
  \/ device_remove_file
  \/ deactivate_cancel_begin
  \/ deactivate_cancel_wait
  \/ deactivate_free

Next ==
  \/ StoreEnters
  \/ StoreSteps
  \/ ShowSteps
  \/ RegistryEvents
  \/ traffic
  \/ NotifySteps
  \/ WorkSteps

\* store calls, show calls, notifications and the work item, freely
\* interleaved
Spec == Init /\ [][Next]_vars

\* store calls and notifications one at a time, the work item in between
SpecSerial == InitSerial /\ [][Next]_vars

\* everything of Next, with the trigger taken off the LED at any moment
NextLife ==
  \/ Next
  \/ deactivate_unregister_notifier
  \/ DeactivateSteps

\* the registry is empty or holds interface d1 = "a", and the LED is dark;
\* the trigger is as activated, or as the writes of a name, that of d1 or of
\* no interface, and of tx leave it
InitLife ==
  /\ HZ = 1000
  /\ serial = FALSE
  /\ hist = [on |-> FALSE, log |-> <<>>]
  /\ clock = untimed
  /\ \E a \in Activated(InitRegistries,
                        {l \in InitLeds : l.brightness = LED_OFF},
                        {txt_a \o <<NL>>, txt_ab \o <<NL>>}) :
       /\ trigger_data = a.td
       /\ netdevs = a.devs
       /\ led_cdev = a.led
       /\ work = a.work
  /\ ops = MaxLifeOps
  /\ InitThreads

SpecLife == InitLife /\ [][NextLife]_vars

\* every context that can take a step is scheduled eventually
Fairness ==
  /\ WF_vars(NameAndFlagSteps)
  /\ WF_vars(NotifySteps)
  /\ WF_vars(WorkSteps)
  /\ WF_vars(DeactivateSteps)

\* device-name and flag writes, the interface going away, the work item and
\* the deactivation, under fair scheduling
NextFair ==
  \/ \E t \in Writers : device_name_store_enter(t)
  \/ \E t \in Writers : netdev_led_attr_store_enter(t)
  \/ NameAndFlagSteps
  \/ unregister_netdevice
  \/ NotifySteps
  \/ WorkSteps
  \/ deactivate_unregister_notifier
  \/ DeactivateSteps

\* the trigger bound to interface d1 = "a" with carrier, tx monitored, after
\* the interface has sent packets
InitFair ==
  /\ HZ = 1000
  /\ serial = FALSE
  /\ hist = [on |-> FALSE, log |-> <<>>]
  /\ clock = untimed
  /\ \E reg \in {g \in ScenarioRegistries :
                   g["d1"].carrier /\ g["d1"].tx_packets # U64Zero},
        led \in {l \in InitLeds : l.brightness = LED_OFF} :
       LET a == AfterSetup(reg, led, INTERVAL_DEFAULT, TRUE, txt_a \o <<NL>>)
       IN /\ trigger_data = a.td
          /\ netdevs = a.devs
          /\ led_cdev = a.led
          /\ work = a.work
  /\ ops = MaxLifeOps
  /\ InitThreads

SpecFair == InitFair /\ [][NextFair]_vars /\ Fairness

\* ------------------------------------------------------------------------
\* Two test scenarios of the spec, started in the state that the writes
\* device_name = "a\n" (and tx = "1") leave behind, with the log recording
\* ------------------------------------------------------------------------
\* link and tx monitored, link up, nothing but traffic and the poll task
InitPoll ==
  /\ HZ \in HZValues
  /\ serial = TRUE
  /\ hist = [on |-> TRUE, log |-> <<>>]
  /\ clock = untimed
  /\ \E reg \in {g \in ScenarioRegistries : g["d1"].carrier},
        led \in InitLeds, ms \in {INTERVAL_DEFAULT, INTERVAL_MIN} :
       LET a == AfterSetup(reg, led, ms, TRUE, txt_a \o <<NL>>)
       IN /\ trigger_data = a.td
          /\ netdevs = a.devs
          /\ led_cdev = a.led
          /\ work = a.work
  /\ ops = MaxOps
  /\ InitThreads

NextPoll ==
  \/ traffic
  \/ PollSteps

SpecPoll == InitPoll /\ [][NextPoll]_vars

\* link monitored, tx and rx not, nothing but link events of the interface
InitLink ==
  /\ HZ \in HZValues
  /\ serial = TRUE
  /\ hist = [on |-> TRUE, log |-> <<>>]
  /\ clock = untimed
  /\ \E reg \in ScenarioRegistries, led \in InitLeds :
       LET a == AfterSetup(reg, led, INTERVAL_DEFAULT, FALSE, txt_a \o <<NL>>)
       IN /\ trigger_data = a.td
          /\ netdevs = a.devs
          /\ led_cdev = a.led
          /\ work = a.work
  /\ ops = MaxLinkEvents
  /\ InitThreads

NextLink ==
  \/ link_event
  \/ NotifySteps

SpecLink == InitLink /\ [][NextLink]_vars

\* link and tx monitored, link up, the shortest interval (one timer tick at
\* HZ = 100): traffic, the poll task and overlapping writes of the link, tx
\* and rx flags, with the delays of the work and the length of the blink
\* timed
InitPulse ==
  /\ HZ = 100
  /\ serial = FALSE
  /\ hist = [on |-> FALSE, log |-> <<>>]
  /\ clock = [timed |-> TRUE, pulse_left |-> 0]
  /\ \E reg \in {g \in ScenarioRegistries : g["d1"].carrier},
        led \in InitLeds :
       LET a == AfterSetup(reg, led, INTERVAL_MIN, TRUE, txt_a \o <<NL>>)
       IN /\ trigger_data = a.td
          /\ netdevs = a.devs
          /\ led_cdev = a.led
          /\ work = a.work
  /\ ops = MaxOps
  /\ InitThreads

NextPulse ==
  \/ traffic
  \/ time_passes
  \/ PollSteps
  \/ \E t \in Writers : netdev_led_attr_store_enter(t)
  \/ \E t \in Writers : store_cancel_begin(t)
  \/ \E t \in Writers : store_cancel_wait(t)
  \/ \E t \in Writers : netdev_led_attr_store_bit(t)
  \/ \E t \in Writers : store_set_baseline_state(t)
  \/ \E t \in Writers : store_return(t)

SpecPulse == InitPulse /\ [][NextPulse]_vars

\* ------------------------------------------------------------------------
\* Vocabulary of the properties
\* ------------------------------------------------------------------------
LinkIsUp == NETDEV_LED_MODE_LINKUP \in trigger_data.mode
MonitorLink == NETDEV_LED_LINK \in trigger_data.mode
MonitorTx == NETDEV_LED_TX \in trigger_data.mode
MonitorRx == NETDEV_LED_RX \in trigger_data.mode

\* the poll task is scheduled or executing
PollerActive == work.pending \/ Running

\* a step that ends an invocation of set_baseline_state
SbsStep ==
  \/ \E t \in Writers : w[t].pc \in SbsPcs /\ w'[t].pc \notin SbsPcs
  \/ n.pc \in SbsPcs /\ n'.pc \notin SbsPcs

\* the written text with one trailing newline stripped
StripNL(buf) ==
  IF buf # <<>> /\ buf[Len(buf)] = NL THEN SubSeq(buf, 1, Len(buf) - 1)
  ELSE buf

\* ------------------------------------------------------------------------
\* C1: right after every set_baseline_state invocation: no bound device
\* implies link not up, and link not up implies the indicator is off and the
\* poll task is neither scheduled nor running
\* ------------------------------------------------------------------------
C1_Invariants ==
  /\ trigger_data.net_dev = NULL => ~LinkIsUp
  /\ ~LinkIsUp => led_cdev.brightness = LED_OFF /\ ~PollerActive

C1_AfterReconcile == [][SbsStep => C1_Invariants']_vars

\* ------------------------------------------------------------------------
\* C2: in every reachable state the poll task is scheduled or executing only
\* when the link is up and tx or rx is monitored
\* ------------------------------------------------------------------------
C2_PollerOnlyWhenLinked ==
  PollerActive => LinkIsUp /\ (MonitorTx \/ MonitorRx)

\* ------------------------------------------------------------------------
\* C3: no poll tick executes between a rebind's cancel-and-wait and the end
\* of its mutation, and a tick in flight works on the handle it started with
\* ------------------------------------------------------------------------
RebindInMutation ==
  \/ \E t \in Writers : w[t].pc \in {"lock"} \cup DeviceNameStorePcs
  \/ /\ n.evt \in {"NETDEV_REGISTER", "NETDEV_UNREGISTER", "NETDEV_CHANGENAME"}
     /\ n.pc \in {"lock"} \cup NotifyPcs

C3_NoTickDuringRebind ==
  /\ RebindInMutation => ~Running
  /\ k.pc = "stats" => k.dev = trigger_data.net_dev
  /\ k.pc # "oops"

\* ------------------------------------------------------------------------
\* C4: boundDevice, the link/tx/rx flags and the interval change only in the
\* locked section of a path that has cancelled the poll task
\* ------------------------------------------------------------------------
ProtectedFields(td) ==
  << td.net_dev, td.mode \ {NETDEV_LED_MODE_LINKUP}, td.interval >>

C4_WriteProtocol ==
  [][ProtectedFields(trigger_data') # ProtectedFields(trigger_data)
     => \/ \E t \in Writers :
             lock = t /\ w[t].pc \in DeviceNameStorePcs /\ w'[t] # w[t]
        \/ lock = "N" /\ n.pc \in NotifyPcs /\ n' # n]_vars

\* ------------------------------------------------------------------------
\* C5: when a write of the empty device name (no byte, or a lone newline)
\* returns, the name is empty, no device is bound, the link is not up, the
\* activity count is 0, the poll task is stopped and the indicator is off
\* ------------------------------------------------------------------------
C5_EmptyNameUnbinds ==
  \A t \in Writers :
    (w[t].pc = "ret" /\ w[t].op = "device_name" /\ w[t].buf \in {<<>>, <<NL>>})
    => /\ CStr(trigger_data.device_name) = <<>>
       /\ trigger_data.net_dev = NULL
       /\ ~LinkIsUp
       /\ trigger_data.last_activity = U32Zero
       /\ ~PollerActive
       /\ led_cdev.brightness = LED_OFF

\* ------------------------------------------------------------------------
\* C6: when an accepted device-name write returns, device_name is the written
\* text without its trailing newline, and the bound device is the interface
\* of that name
\* ------------------------------------------------------------------------
C6_NameStored ==
  \A t \in Writers :
    (w[t].pc = "ret" /\ w[t].op = "device_name" /\ w[t].ret >= 0)
    => /\ CStr(trigger_data.device_name) = StripNL(w[t].buf)
       /\ trigger_data.net_dev = dev_get_by_name(netdevs, StripNL(w[t].buf))

\* ------------------------------------------------------------------------
\* Integer texts
\* ------------------------------------------------------------------------
AllIn(t, set) == \A i \in 1..Len(t) : t[i] \in set

\* the text is a decimal, octal or hexadecimal literal, after an optional
\* '+' and before an optional newline
IsIntegerText(txt) ==
  LET t1 == StripNL(txt)
      t == IF t1 # <<>> /\ t1[1] = 43 THEN Tail(t1) ELSE t1
  IN /\ t # <<>>
     /\ \/ t[1] \in 49..57 /\ AllIn(t, 48..57)
        \/ t[1] = 48 /\ AllIn(t, 48..55)
        \/ /\ Len(t) >= 3 /\ t[1] = 48 /\ t[2] \in {120, 88}
           /\ AllIn(SubSeq(t, 3, Len(t)), (48..57) \cup (97..102) \cup (65..70))

\* the digits the text starts with do not fit an unsigned long
DigitsOverflow(txt) == kstrtoul(txt).ret = -ERANGE

\* ------------------------------------------------------------------------
\* C7: an interval write of an integer outside [5, 10000] returns success and
\* changes nothing; one inside [5, 10000] cancels the poll cycle, sets the
\* interval and re-runs set_baseline_state, which restarts the poll task when
\* the link is up and tx or rx is monitored.  As claimed, every integer text
\* is covered and pollIntervalMs is then the written value; as amended, an
\* integer that does not fit an unsigned long is rejected with -ERANGE, and
\* pollIntervalMs is the written value rounded up to a whole number of timer
\* ticks.
\* ------------------------------------------------------------------------
IntervalOutOfRange(v) ==
  ~(ULongLe(ULong(INTERVAL_MIN), v) /\ ULongLe(v, ULong(INTERVAL_MAX)))

\* ms is v rounded up to a multiple of the tick length
RoundedUpToTick(ms, v) ==
  /\ ms >= v
  /\ ms - v < MSEC_PER_SEC \div HZ
  /\ ms % (MSEC_PER_SEC \div HZ) = 0

IntervalWriteSteps(t, buf, v, Stored(_, _), TooBig(_)) ==
  /\ (w[t].pc = "idle" /\ w'[t].op = "interval" /\ IsIntegerText(buf))
     => IF TooBig(buf)
        THEN /\ w'[t].pc = "ret" /\ w'[t].ret = -ERANGE
             /\ UNCHANGED << trigger_data, lock, work, led_cdev, netdevs >>
        ELSE IF IntervalOutOfRange(v)
        THEN /\ w'[t].pc = "ret" /\ w'[t].ret = Len(buf)
             /\ UNCHANGED << trigger_data, lock, work, led_cdev, netdevs >>
        ELSE w'[t].pc = "cancel"
  /\ (w[t].op = "interval" /\ w[t].pc = "cancel_wait" /\ w'[t].pc = "body")
     => ~PollerActive'
  /\ (w[t].op = "interval" /\ w[t].pc = "body" /\ w'[t].pc # "body")
     => Stored(pollIntervalMs', ULongLow(v))
  /\ (w[t].op = "interval" /\ w[t].pc \in SbsPcs /\ w'[t].pc = "ret")
     => /\ w'[t].ret = Len(buf)
        /\ Stored(pollIntervalMs', ULongLow(v))
        /\ work'.pending <=> (LinkIsUp /\ (MonitorTx \/ MonitorRx))
        /\ work'.pending => work'.delay = 0

SameValue(ms, v) == ms = v

NeverTooBig(txt) == FALSE

C7_IntervalWrite_AsClaimed ==
  [][\A t \in Writers : \A buf \in {w'[t].buf} : \A v \in {kstrtoul(buf).val} :
       IntervalWriteSteps(t, buf, v, SameValue, NeverTooBig)]_vars

C7_IntervalWrite ==
  [][\A t \in Writers : \A buf \in {w'[t].buf} : \A v \in {kstrtoul(buf).val} :
       IntervalWriteSteps(t, buf, v, RoundedUpToTick, DigitsOverflow)]_vars

\* an in-range write has returned, the interval differs from the written
\* value and the poll task has been restarted
C7_Witness ==
  \E t \in Writers :
    /\ w[t].pc = "ret" /\ w[t].op = "interval" /\ w[t].ret = Len(w[t].buf)
    /\ ~IntervalOutOfRange(kstrtoul(w[t].buf).val)
    /\ pollIntervalMs # ULongLow(kstrtoul(w[t].buf).val)
    /\ work.pending

\* ------------------------------------------------------------------------
\* C8: a write of malformed integer text to a flag or to the interval, or of
\* a device name of IFNAMSIZ bytes or more, is rejected and leaves the
\* trigger state, the indicator and the poll task as they were.  As claimed,
\* the error is always -EINVAL; as amended, it is -ERANGE when the malformed
\* text starts with digits that do not fit an unsigned long
\* ------------------------------------------------------------------------
RejectedWrite(wr) ==
  \/ wr.op = "device_name" /\ Len(wr.buf) >= IFNAMSIZ
  \/ wr.op \in {"attr", "interval"} /\ ~IsIntegerText(wr.buf)

InvalidArgument(wr) == -EINVAL

InvalidOrRange(wr) ==
  IF wr.op \in {"attr", "interval"} /\ DigitsOverflow(wr.buf) THEN -ERANGE
  ELSE -EINVAL

RejectedWriteStep(t, wr, Error(_)) ==
  (w[t].pc = "idle" /\ wr.pc # "idle" /\ RejectedWrite(wr))
  => /\ wr.pc = "ret" /\ wr.ret = Error(wr)
     /\ UNCHANGED << trigger_data, lock, work, led_cdev, netdevs >>

C8_RejectedWrite_AsClaimed ==
  [][\A t \in Writers : \A wr \in {w'[t]} :
       RejectedWriteStep(t, wr, InvalidArgument)]_vars

C8_RejectedWrite ==
  [][\A t \in Writers : \A wr \in {w'[t]} :
       RejectedWriteStep(t, wr, InvalidOrRange)]_vars

\* a malformed interval text has been rejected with -ERANGE while the poll
\* task stays scheduled
C8_Witness ==
  \E t \in Writers :
    /\ w[t].pc = "ret" /\ w[t].ret = -ERANGE /\ w[t].op = "interval"
    /\ ~IsIntegerText(w[t].buf)
    /\ work.pending

\* ------------------------------------------------------------------------
\* C9: with link and tx monitored, the link up and only traffic and poll
\* ticks going on, a tick goes on to blink exactly when the tx counter it
\* read differs from last_activity; it then issues one pulse with delay_on =
\* delay_off = pollIntervalMs, inverted, and stores the counter; no pulse is
\* issued elsewhere, and no two pulses are issued for the same counter value
\* ------------------------------------------------------------------------
NoTwoPulsesForOneValue(h) ==
  \A i, j \in 1..Len(h) : i # j => h[i].tx # h[j].tx

C9_OnePulsePerChange ==
  [][/\ (k.pc = "compare" /\ k'.pc # "compare")
        => IF k.tx.lo # trigger_data.last_activity
           THEN k'.pc = "invert"
           ELSE k'.pc = "resched" /\ led_cdev' = led_cdev
     /\ (k.pc = "blink" /\ k'.pc # "blink")
        => /\ led_cdev'.oneshot = [delay_on |-> pollIntervalMs,
                                   delay_off |-> pollIntervalMs,
                                   invert |-> TRUE]
           /\ Len(hist'.log) = Len(hist.log) + 1
           /\ NoTwoPulsesForOneValue(hist'.log)
           /\ k'.pc = "store"
     /\ (k.pc = "store" /\ k'.pc # "store")
        => /\ trigger_data'.last_activity = k.tx.lo
           /\ k'.pc = "resched"
     /\ hist' # hist => k.pc = "blink"
     /\ trigger_data' # trigger_data => k.pc = "store"]_vars

\* two ticks have issued a pulse each, the second across the 32-bit wrap
C9_Witness ==
  /\ Len(hist.log) >= 2
  /\ hist.log[Len(hist.log)].tx.hi = 1
  /\ k.pc = "resched"

\* ------------------------------------------------------------------------
\* C10: with only link monitored and the device bound, the notifications
\* DOWN, UP with carrier, DOWN leave the indicator OFF, ON, OFF, and the poll
\* task is never scheduled
\* ------------------------------------------------------------------------
DownUpDownAt(h, i) ==
  /\ h[i].evt = "NETDEV_DOWN"
  /\ h[i + 1].evt = "NETDEV_UP" /\ h[i + 1].carrier
  /\ h[i + 2].evt = "NETDEV_DOWN"

C10_DownUpDown ==
  /\ ~PollerActive
  /\ \A i \in 1..(Len(hist.log) - 2) :
       DownUpDownAt(hist.log, i)
       => /\ hist.log[i].level = LED_OFF
          /\ hist.log[i + 1].level # LED_OFF
          /\ hist.log[i + 1].level = led_cdev.blink_brightness
          /\ hist.log[i + 2].level = LED_OFF

\* the three notifications have been handled, starting with the link up
C10_Witness ==
  /\ Len(hist.log) = 3 /\ DownUpDownAt(hist.log, 1)
  /\ n.pc = "idle"
  /\ led_cdev.brightness = LED_OFF

\* ------------------------------------------------------------------------
\* C11: in every reachable state, set_baseline_state invoked twice in a row
\* leaves the indicator at the same level and the poll task in the same
\* scheduled-or-not state after the second invocation as after the first
\* ------------------------------------------------------------------------
C11_ReconcileIdempotent ==
  LET r1 == set_baseline_state(trigger_data, led_cdev, work)
      r2 == set_baseline_state(trigger_data, r1.led, r1.work)
  IN /\ r2.led.brightness = r1.led.brightness
     /\ r2.work.pending = r1.work.pending

\* set_baseline_state has lit the LED at the brightness it found and started
\* the poll task, and a second invocation is about to follow (mode_store)
C11_Witness ==
  \E t \in Writers :
    /\ w[t].op = "mode" /\ w[t].pc = "cancel" /\ w[t].attr = NETDEV_LED_RX
    /\ LinkIsUp /\ MonitorLink /\ MonitorTx
    /\ led_cdev.brightness = 127
    /\ work.pending

\* ------------------------------------------------------------------------
\* C12: once netdev_trig_deactivate has freed trigger_data, no work is
\* scheduled or executing, no notification, no store call and no show call
\* is in progress, and no later step touches trigger_data, its lock, its
\* work or the LED
\* ------------------------------------------------------------------------
Destroyed == core.pc = "done"

C12_NothingAfterDestroy ==
  [][Destroyed'
     => /\ ~PollerActive' /\ work'.canceling = NULL
        /\ n'.pc = "idle" /\ r'.pc = "idle"
        /\ \A t \in Writers : w'[t].pc = "idle"
        /\ Destroyed
           => UNCHANGED << trigger_data, lock, work, led_cdev >>]_vars

\* the trigger has been freed after a poll cycle that blinked for traffic
C12_Witness ==
  /\ Destroyed
  /\ LinkIsUp /\ MonitorTx
  /\ trigger_data.last_activity # U32Zero

\* ------------------------------------------------------------------------
\* C13: when netdev_trig_deactivate has completed, the indicator is off and
\* no interface reference is held
\* ------------------------------------------------------------------------
C13_OffAfterDeactivate ==
  Destroyed
  => /\ led_cdev.brightness = LED_OFF
     /\ \A dv \in Devs : netdevs[dv].refcnt = 0

\* ------------------------------------------------------------------------
\* C19: whenever no path is inside its locked section, the references the
\* trigger has taken and not released are one, on the bound interface, while
\* trigger_data lives with net_dev set, and none otherwise, also after
\* netdev_trig_deactivate
\* ------------------------------------------------------------------------
InLockedSection == lock \in Writers \cup {"N"}

InCall ==
  \/ \E t \in Writers : w[t].pc # "idle"
  \/ n.pc # "idle"
  \/ core.pc \notin {"idle", "done"}

C14_EveryCallReturns == InCall ~> ~InCall

\* ------------------------------------------------------------------------
\* C15: a step that changes the bound device or one of the link, tx and rx
\* flags leaves last_activity at 0, or belongs to the locked section of
\* device_name_store, which has last_activity at 0 when it goes on to
\* set_baseline_state
\* ------------------------------------------------------------------------
MonitorFlags(td) ==
  td.mode \cap {NETDEV_LED_LINK, NETDEV_LED_TX, NETDEV_LED_RX}

InDeviceNameStore ==
  \E t \in Writers : lock = t /\ w[t].pc \in DeviceNameStorePcs /\ w'[t] # w[t]

C15_ActivityReset ==
  [][/\ (/\ \/ trigger_data'.net_dev # trigger_data.net_dev
             \/ MonitorFlags(trigger_data') # MonitorFlags(trigger_data)
          /\ ~InDeviceNameStore)
        => trigger_data'.last_activity = U32Zero
     /\ \A t \in Writers :
          (w[t].pc \in DeviceNameStorePcs /\ w'[t].pc = "sbs_read")
          => trigger_data'.last_activity = U32Zero]_vars

\* ------------------------------------------------------------------------
\* C16: when the handling of a notification that passed the name check
\* returns, the link is up exactly when the event is UP or CHANGE and the
\* interface has carrier; after REGISTER the event's interface is bound and
\* the handle held before is released; after CHANGENAME and UNREGISTER no
\* device is bound and the handle is released; the locked section of UP,
\* DOWN and CHANGE leaves the handle and the references alone
\* ------------------------------------------------------------------------
LinkUpEvent(evt, dev) ==
  evt \in {"NETDEV_UP", "NETDEV_CHANGE"} /\ netdevs[dev].carrier

\* the step changes the references held on interface dv by delta
RefsMove(dv, delta) ==
  netdevs'[dv].refcnt = netdevs[dv].refcnt + delta

\* one reference is held, on the bound interface, and none on the others
OneHandle(td, devs) ==
  \A dv \in Devs : devs[dv].refcnt = IF td.net_dev = dv THEN 1 ELSE 0

C16_NotifyEffect ==
  [][/\ (lock = "N" /\ n.evt \in {"NETDEV_UP", "NETDEV_DOWN", "NETDEV_CHANGE"})
        => /\ trigger_data'.net_dev = trigger_data.net_dev
           /\ \A dv \in Devs : RefsMove(dv, 0)
     /\ (n.pc = "unlock" /\ n'.pc = "idle")
        => /\ LinkIsUp' <=> LinkUpEvent(n.evt, n.dev)
           /\ n.evt \in {"NETDEV_CHANGENAME", "NETDEV_UNREGISTER"}
              => /\ trigger_data'.net_dev = NULL
                 /\ OneHandle(trigger_data', netdevs')
           /\ n.evt = "NETDEV_REGISTER"
              => /\ trigger_data'.net_dev = n.dev
                 /\ OneHandle(trigger_data', netdevs')]_vars

\* a REGISTER notification has bound the interface of the event, next to
\* another registered interface on which the trigger holds no reference
C16_Witness ==
  /\ n.pc = "unlock" /\ n.evt = "NETDEV_REGISTER"
  /\ trigger_data.net_dev = n.dev
  /\ \E dv \in Devs \ {n.dev} : netdevs[dv].registered /\ netdevs[dv].refcnt = 0

\* ------------------------------------------------------------------------
\* C17: whenever no store call and no notification is in progress, a bound
\* device is a registered interface whose name is device_name
\* ------------------------------------------------------------------------
Quiescent == n.pc = "idle" /\ \A t \in Writers : w[t].pc = "idle"

C17_BoundOnlyWhileKnown ==
  (Quiescent /\ trigger_data.net_dev # NULL)
  => /\ netdevs[trigger_data.net_dev].registered
     /\ netdevs[trigger_data.net_dev].name = CStr(trigger_data.device_name)

\* ------------------------------------------------------------------------
\* C18: a poll tick samples the counters only when the pulse issued last is
\* over, that is when twice the interval it was issued with has passed since
\* it started
\* ------------------------------------------------------------------------
C18_NoSampleDuringPulse ==
  [][(k.pc = "stats" /\ k'.pc = "activity") => clock.pulse_left = 0]_vars

\* ------------------------------------------------------------------------
\* C20: with a device-name write overlapping a notification, the locked
\* section of the notification binds a handle or sets the link up only for
\* an interface whose name is the device_name of that moment
\* ------------------------------------------------------------------------
C20_NoStaleMatch ==
  [][(/\ n.pc \in NotifyPcs /\ n' # n
      /\ \/ /\ trigger_data'.net_dev # NULL
            /\ trigger_data'.net_dev # trigger_data.net_dev
         \/ LinkIsUp' /\ ~LinkIsUp)
     => streq(netdevs[n.dev].name, trigger_data.device_name)]_vars

====
